---- MODULE Spec2Model ----
(***************************************************************************)
(* Model of the network capability tester (NetworkCapabilityTester):       *)
(* the orchestrator startTests / stopTests, the transfer samplers          *)
(* measureDownload / measureUpload, the latency sampler measureLatency.    *)
(*                                                                         *)
(* JavaScript runs one task at a time: a task (click handler, timer,       *)
(* network event) and every promise continuation it makes runnable finish  *)
(* before the next task starts.  Each action below is one task together    *)
(* with the continuations it releases (Close).                             *)
(* Times are milliseconds, byte counts are bytes, throughput is kbit/s     *)
(* (bits per millisecond), loss is per mille.                              *)
(***************************************************************************)
EXTENDS Integers, Sequences, FiniteSets, TLC

\* ---- bounds of the model ----
MaxRuns == 1
MaxTransfers == 1
MaxFailures == 1
SlowWindow == 0
MaxUploadFailures == 3
TickMs == 3000
MaxProgressTransfers == 3
FineTickMs == 250

\* ---- program constants ----
DL_DURATION_S == 6
UL_DURATION_S == 5
RTT_PINGS == 12
TOTAL_STEPS == 3
MAX_PAR_DL == 6
MAX_PAR_UL == 4
WATCHDOG_EXTRA_MS == 2000
PROGRESS_INTERVAL_MS == 500
PROBE_SLEEP_MS == 120
CAP_SLEEP_MS == 10
FAILURE_THRESHOLD == 3
DL_CHUNK_BYTES == 8388608
UL_PAYLOAD_BYTES == 2097152

Null == -1
NaN == -2
NoError == "null"

\* invocations of startTests; the specification with a restart uses one more
Runs == 1..(MaxRuns + 1)

\* body lengths a successful download response may carry
BodyLengths == {0, DL_CHUNK_BYTES}
\* failures of one request: HTTP statuses and a transport error (TypeError)
DownloadFailKinds == {"500", "transport"}
UploadFailKinds == {"429", "403", "500", "transport"}
ProbeFailKinds == {"transport"}
\* what every failing upload request of a scripted scenario fails with; Mixed
\* leaves the failures free
Mixed == "mixed"
Scripts == UploadFailKinds \cup {Mixed}
\* values of VITE_UPLOAD_ENDPOINTS, split and trimmed: none, one custom
\* endpoint, a custom endpoint given twice, a built-in default given as custom
EnvChoices ==
  { << >>,
    << "https://a.example/up" >>,
    << "https://a.example/up", "https://a.example/up" >>,
    << "https://a.example/up", "https://postman-echo.com/post" >> }
\* round-trip times a probe may measure, in milliseconds
ProbeRtts == {20, 60}
\* the phases of a run, as the keys of samples and stepErrors
Phases == {"dl", "ul", "rtt"}

DEFAULT_UPLOAD_TARGETS ==
  << [name |-> "Cloudflare Speed Test", url |-> "https://speed.cloudflare.com/__up"],
     [name |-> "Postman Echo", url |-> "https://postman-echo.com/post"],
     [name |-> "HTTPBin", url |-> "https://httpbin.org/post"] >>

CustomNames == << "Custom endpoint 1", "Custom endpoint 2", "Custom endpoint 3" >>

ENV_UPLOAD_ENDPOINTS(env) ==
  [i \in 1..Len(env) |-> [name |-> CustomNames[i], url |-> env[i]]]

\* array.filter((t, i, a) => a.findIndex(x => x.url === t.url) === i)
RECURSIVE DedupeByUrl(_, _)
DedupeByUrl(list, seen) ==
  IF list = << >> THEN << >>
  ELSE IF Head(list).url \in seen THEN DedupeByUrl(Tail(list), seen)
       ELSE << Head(list) >> \o DedupeByUrl(Tail(list), seen \cup {Head(list).url})

\* the built-in defaults listed first
UPLOAD_TARGETS_DefaultsFirst(env) ==
  DedupeByUrl(DEFAULT_UPLOAD_TARGETS \o ENV_UPLOAD_ENDPOINTS(env), {})

UPLOAD_TARGETS(env) == DedupeByUrl(ENV_UPLOAD_ENDPOINTS(env) \o DEFAULT_UPLOAD_TARGETS, {})

Max(a, b) == IF a > b THEN a ELSE b
SetMin(S) == CHOOSE m \in S : \A o \in S : m <= o

RECURSIVE SumTo(_, _)
SumTo(s, n) == IF n = 0 THEN 0 ELSE s[n] + SumTo(s, n - 1)

SumSeq(s) == SumTo(s, Len(s))

RECURSIVE IsqrtFrom(_, _)
IsqrtFrom(n, k) == IF (k + 1) * (k + 1) > n THEN k ELSE IsqrtFrom(n, k + 1)

\* (bytes * 8) / Math.max(elapsedSeconds, 0.001), in kbit/s
Bps(bytes, elapsedMs) == (bytes * 8) \div Max(elapsedMs, 1)

\* population standard deviation, 0 for an empty array
stddev(arr) ==
  IF Len(arr) = 0 THEN 0
  ELSE LET n == Len(arr)
           sq == [i \in 1..n |-> arr[i] * arr[i]]
           num == n * SumSeq(sq) - SumSeq(arr) * SumSeq(arr)
       IN IsqrtFrom(num \div (n * n), 0)

\* ---- the capability catalog and rateCapabilities ----

\* Throughput is in kbit/s (0.001 Mbps), round-trip time in milliseconds, loss
\* in per mille; Number.EPSILON is below the resolution of these units.  A
\* threshold a quality does not set is Null.
NoThreshold == [minDl |-> Null, minUl |-> Null, maxRtt |-> Null, maxLoss |-> Null]

\* a catalog whose audio tier tolerates less latency than its video tier
CAPABILITY_GROUPS_AudioStricter ==
  << [service |-> "Teams",
      qualities |->
        << [key |-> "teams-720p",
            thresholds |-> [minDl |-> 1500, minUl |-> 1000, maxRtt |-> 150, maxLoss |-> 30]],
           [key |-> "teams-audio",
            thresholds |-> [minDl |-> 300, minUl |-> 300, maxRtt |-> 80, maxLoss |-> 50]] >>],
     [service |-> "Streaming",
      qualities |->
        << [key |-> "streaming-4k",
            thresholds |-> [NoThreshold EXCEPT !.minDl = 25000, !.maxLoss = 20]],
           [key |-> "streaming-1080p",
            thresholds |-> [NoThreshold EXCEPT !.minDl = 5000, !.maxLoss = 30]] >>],
     [service |-> "GeForce NOW",
      qualities |->
        << [key |-> "geforce-1080p60",
            thresholds |-> [NoThreshold EXCEPT !.minDl = 25000, !.maxRtt = 40, !.maxLoss = 15]],
           [key |-> "geforce-720p60",
            thresholds |-> [NoThreshold EXCEPT !.minDl = 15000, !.maxRtt = 80, !.maxLoss = 25]] >> ] >>

CAPABILITY_GROUPS ==
  << [service |-> "Teams",
      qualities |->
        << [key |-> "teams-720p",
            thresholds |-> [minDl |-> 1500, minUl |-> 1000, maxRtt |-> 150, maxLoss |-> 30]],
           [key |-> "teams-audio",
            thresholds |-> [minDl |-> 300, minUl |-> 300, maxRtt |-> 200, maxLoss |-> 50]] >>],
     [service |-> "Streaming",
      qualities |->
        << [key |-> "streaming-4k",
            thresholds |-> [NoThreshold EXCEPT !.minDl = 25000, !.maxLoss = 20]],
           [key |-> "streaming-1080p",
            thresholds |-> [NoThreshold EXCEPT !.minDl = 5000, !.maxLoss = 30]] >>],
     [service |-> "GeForce NOW",
      qualities |->
        << [key |-> "geforce-1080p60",
            thresholds |-> [NoThreshold EXCEPT !.minDl = 25000, !.maxRtt = 40, !.maxLoss = 15]],
           [key |-> "geforce-720p60",
            thresholds |-> [NoThreshold EXCEPT !.minDl = 15000, !.maxRtt = 80, !.maxLoss = 25]] >> ] >>

\* status of an option and ok of a group: true, false, null
Pass == "true"
Fail == "false"
Unknown == "null"

\* value == null || Number.isNaN(value)
IsMissing(v) == v = Null \/ v = NaN

\* the entries one dimension pushes to missing and to limiting; floor tells a
\* minimum from a maximum
\* a measurement counted as missing also where the quality sets no threshold
PushMissingUnconditional(th, v, name) == IF IsMissing(v) THEN << name >> ELSE << >>

PushMissing(th, v, name) == IF th # Null /\ IsMissing(v) THEN << name >> ELSE << >>

\* a measurement equal to its threshold reported as limiting
PushLimitingAtThreshold(th, v, name, floor) ==
  IF th # Null /\ ~IsMissing(v) /\ (IF floor THEN v <= th ELSE v >= th)
  THEN << name >> ELSE << >>

\* a maximum compared as if it were a minimum
PushLimitingAllFloors(th, v, name, floor) ==
  IF th # Null /\ ~IsMissing(v) /\ v < th THEN << name >> ELSE << >>

\* the download comparison taken the wrong way round
PushLimitingInverted(th, v, name, floor) ==
  IF th # Null /\ ~IsMissing(v) /\ v > th THEN << name >> ELSE << >>

PushLimiting(th, v, name, floor) ==
  IF th # Null /\ ~IsMissing(v) /\ (IF floor THEN v < th ELSE v > th)
  THEN << name >> ELSE << >>

\* missing takes precedence over limiting
StatusOfMissingFirst(missing, limiting) ==
  IF Len(missing) > 0 THEN Unknown ELSE IF Len(limiting) > 0 THEN Fail ELSE Pass

\* limiting.length > 0 ? false : missing.length > 0 ? null : true
StatusOf(missing, limiting) ==
  IF Len(limiting) > 0 THEN Fail ELSE IF Len(missing) > 0 THEN Unknown ELSE Pass

\* one element of group.qualities.map(...)
rateQuality(quality, m) ==
  LET th == quality.thresholds
      missing == PushMissing(th.minDl, m.dlMbps, "download speed")
                   \o PushMissing(th.minUl, m.ulMbps, "upload speed")
                   \o PushMissing(th.maxRtt, m.rtt, "latency")
                   \o PushMissing(th.maxLoss, m.loss, "packet loss")
      limiting == PushLimiting(th.minDl, m.dlMbps, "download speed", TRUE)
                    \o PushLimiting(th.minUl, m.ulMbps, "upload speed", TRUE)
                    \o PushLimiting(th.maxRtt, m.rtt, "latency", FALSE)
                    \o PushLimiting(th.maxLoss, m.loss, "packet loss", FALSE)
  IN [key |-> quality.key, status |-> StatusOf(missing, limiting),
      missing |-> missing, limiting |-> limiting]

\* index of the first option with the status, 0 when there is none
RECURSIVE FindFrom(_, _, _)
FindFrom(options, st, i) ==
  IF i > Len(options) THEN 0
  ELSE IF options[i].status = st THEN i ELSE FindFrom(options, st, i + 1)

\* index of the last option with the status, 0 when there is none
RECURSIVE FindLast(_, _, _)
FindLast(options, st, i) ==
  IF i = 0 THEN 0
  ELSE IF options[i].status = st THEN i ELSE FindLast(options, st, i - 1)

\* the limiting factors taken from the first failing option
VerdictFirstFailing(options) ==
  LET top == FindFrom(options, Pass, 1)
      unknownOption == FindFrom(options, Unknown, 1)
      failingOption == FindFrom(options, Fail, 1)
  IN IF top > 0
     THEN [ok |-> Pass, top |-> options[top].key, missing |-> << >>, limiting |-> << >>]
     ELSE IF unknownOption > 0
     THEN [ok |-> Unknown, top |-> "", missing |-> options[unknownOption].missing,
           limiting |-> << >>]
     ELSE [ok |-> Fail, top |-> "", missing |-> << >>,
           limiting |-> IF failingOption > 0 THEN options[failingOption].limiting ELSE << >>]

\* a failing option looked for before an unknown one
VerdictFailFirst(options) ==
  LET top == FindFrom(options, Pass, 1)
      unknownOption == FindFrom(options, Unknown, 1)
      failingOption == FindLast(options, Fail, Len(options))
  IN IF top > 0
     THEN [ok |-> Pass, top |-> options[top].key, missing |-> << >>, limiting |-> << >>]
     ELSE IF failingOption > 0
     THEN [ok |-> Fail, top |-> "", missing |-> << >>,
           limiting |-> options[failingOption].limiting]
     ELSE [ok |-> Unknown, top |-> "",
           missing |-> IF unknownOption > 0 THEN options[unknownOption].missing ELSE << >>,
           limiting |-> << >>]

\* ok, the quality named in why, missing and limiting of a group
Verdict(options) ==
  LET top == FindFrom(options, Pass, 1)
      unknownOption == FindFrom(options, Unknown, 1)
      failingOption == FindLast(options, Fail, Len(options))
  IN IF top > 0
     THEN [ok |-> Pass, top |-> options[top].key, missing |-> << >>, limiting |-> << >>]
     ELSE IF unknownOption > 0
     THEN [ok |-> Unknown, top |-> "", missing |-> options[unknownOption].missing,
           limiting |-> << >>]
     ELSE [ok |-> Fail, top |-> "", missing |-> << >>,
           limiting |-> IF failingOption > 0 THEN options[failingOption].limiting ELSE << >>]

rateGroup(group, m) ==
  LET options == [i \in 1..Len(group.qualities) |-> rateQuality(group.qualities[i], m)]
      v == Verdict(options)
  IN [key |-> group.service, ok |-> v.ok, top |-> v.top, missing |-> v.missing,
      limiting |-> v.limiting, options |-> options]

rateCapabilities(m) ==
  [g \in 1..Len(CAPABILITY_GROUPS) |-> rateGroup(CAPABILITY_GROUPS[g], m)]

\* a truthiness test in place of != null: a measured zero handed over as null
MeasurementsZeroAbsent(dl, ul, rtt, loss) ==
  [dlMbps |-> IF dl # Null /\ dl # 0 THEN dl ELSE Null,
   ulMbps |-> IF ul # Null /\ ul # 0 THEN ul ELSE Null,
   rtt |-> rtt, loss |-> loss]

\* null / 1e6 is 0: a result that was not written handed over as a zero
MeasurementsZero(dl, ul, rtt, loss) ==
  [dlMbps |-> IF dl # Null THEN dl ELSE 0, ulMbps |-> IF ul # Null THEN ul ELSE 0,
   rtt |-> rtt, loss |-> loss]

\* what the component hands to rateCapabilities: a result that was not
\* written is passed as null
Measurements(dl, ul, rtt, loss) ==
  [dlMbps |-> IF dl # Null THEN dl ELSE Null, ulMbps |-> IF ul # Null THEN ul ELSE Null,
   rtt |-> rtt, loss |-> loss]

NoMeasurements == Measurements(Null, Null, Null, Null)

VARIABLES
  envEndpoints,    \* VITE_UPLOAD_ENDPOINTS, split and trimmed
  dlBps, ulBps, latencyMs, jitterMs, lossPct, samples, stepErrors,
  progressDetails, isRunning, status, runningRef, abortersRef,
  pc,              \* per invocation of startTests: the await it is suspended at
  enc,             \* per invocation: encounteredErrors
  sig,             \* per invocation: signal.aborted of the current phase's controller
  x,               \* per invocation: locals of measureDownload / measureUpload
  l,               \* per invocation: locals of measureLatency
  cancelled,       \* invocations that were in progress when stopTests ran
  startsLeft,      \* start requests the user will still make
  script,          \* what the upload endpoints fail with in this scenario
  alerts,          \* calls of window.alert so far
  fault,           \* the statement of startTests that throws in this scenario
  rateArg,         \* the argument of a call of rateCapabilities
  rateRet          \* what the call returned, << >> before it returns

vars == << envEndpoints, dlBps, ulBps, latencyMs, jitterMs, lossPct, samples, stepErrors,
           progressDetails, isRunning, status, runningRef, abortersRef,
           pc, enc, sig, x, l, cancelled, startsLeft, script, alerts, fault,
           rateArg, rateRet >>

results == << dlBps, ulBps, latencyMs, jitterMs, lossPct, samples >>

Targets == UPLOAD_TARGETS(envEndpoints)

NoEnc == [dl |-> FALSE, ul |-> FALSE, rtt |-> FALSE]
NoRet == [kind |-> "none", err |-> NoError, bps |-> 0, count |-> 0, avg |-> 0, jit |-> 0, loss |-> 0]
NoX == [t |-> 0, bytes |-> 0, count |-> 0, inFlight |-> 0, lastError |-> NoError,
        lastProgressEmit |-> 0, fly |-> << >>, asleep |-> 0, done |-> 0,
        activeTargetIndex |-> 0, lastNotifiedTarget |-> -1, failureCounts |-> << >>,
        failed |-> 0, notified |-> 0, emits |-> 0]
NoL == [st |-> "none", index |-> 0, durations |-> << >>, drops |-> 0, lastError |-> NoError,
        sleepLeft |-> 0]
NoSamples == [dl |-> 0, ul |-> 0, rtt |-> 0]
NoStepErrors == [dl |-> NoError, ul |-> NoError, rtt |-> NoError]

\* the progress log: which messages it holds; their order, their repetition
\* and the figures they carry are not kept
Logged(log, e) == log \cup {e}

\* the statements of startTests outside its three inner try blocks: the status
\* write that opens a phase and the aggregate after the last phase; none of
\* them throws unless the scenario says so
NoFault == "none"
FaultPoints == {"dl", "ul", "rtt", "final"}

\* the component after construction; env is VITE_UPLOAD_ENDPOINTS
InitProgram(starts, env) ==
  /\ startsLeft = starts
  /\ envEndpoints = env
  /\ dlBps = Null /\ ulBps = Null /\ latencyMs = Null /\ jitterMs = Null /\ lossPct = Null
  /\ samples = NoSamples
  /\ stepErrors = NoStepErrors
  /\ progressDetails = {}
  /\ isRunning = FALSE
  /\ status = [label |-> "Idle", step |-> 0]
  /\ runningRef = FALSE
  /\ abortersRef = {}
  /\ pc = [r \in Runs |-> "none"]
  /\ enc = [r \in Runs |-> NoEnc]
  /\ sig = [r \in Runs |-> FALSE]
  /\ x = [r \in Runs |-> NoX]
  /\ l = [r \in Runs |-> NoL]
  /\ cancelled = {}
  /\ alerts = 0

\* no custom upload endpoint, no call of rateCapabilities outside the component
InitWith(starts) ==
  /\ InitProgram(starts, << >>)
  /\ script = Mixed
  /\ fault = NoFault
  /\ rateArg = NoMeasurements /\ rateRet = << >>

Init == InitWith(MaxRuns)

\* the user stops a test and starts the next one
InitRestart == InitWith(MaxRuns + 1)

\* the component's state as one value; ret holds, while continuations run,
\* how the awaited sampler of an invocation settled
State ==
  [dlBps |-> dlBps, ulBps |-> ulBps, latencyMs |-> latencyMs, jitterMs |-> jitterMs,
   lossPct |-> lossPct, samples |-> samples, stepErrors |-> stepErrors,
   progressDetails |-> progressDetails, isRunning |-> isRunning, status |-> status,
   runningRef |-> runningRef, abortersRef |-> abortersRef, pc |-> pc, enc |-> enc,
   sig |-> sig, x |-> x, l |-> l, cancelled |-> cancelled, alerts |-> alerts,
   ret |-> [r \in Runs |-> NoRet]]

\* the state after the step is S
ProgramBecomes(S) ==
  /\ dlBps' = S.dlBps /\ ulBps' = S.ulBps /\ latencyMs' = S.latencyMs
  /\ jitterMs' = S.jitterMs /\ lossPct' = S.lossPct /\ samples' = S.samples
  /\ stepErrors' = S.stepErrors /\ progressDetails' = S.progressDetails
  /\ isRunning' = S.isRunning /\ status' = S.status /\ runningRef' = S.runningRef
  /\ abortersRef' = S.abortersRef /\ pc' = S.pc /\ enc' = S.enc /\ sig' = S.sig
  /\ x' = S.x /\ l' = S.l /\ cancelled' = S.cancelled /\ alerts' = S.alerts

Becomes(S) ==
  ProgramBecomes(S) /\ UNCHANGED << envEndpoints, startsLeft, script, fault, rateArg, rateRet >>

logProgress(S, k) == [S EXCEPT !.progressDetails = Logged(@, k)]

\* ---- cancellation handles ----

\* registerAborter(controller): the registry holds one handle per phase in progress
registerAborter(reg, r, ph) == reg \cup { << r, ph >> }
unregister(reg, r, ph) == reg \ { << r, ph >> }
Registered(reg, r) == \E ph \in Phases : << r, ph >> \in reg

\* ---- the pump loop of measureDownload / measureUpload ----

Zeros(n) == [i \in 1..n |-> 0]

\* one worker arrives at the head of its while loop
LoopHead(rec, par, durMs, running) ==
  IF rec.t < durMs /\ running
  THEN IF rec.inFlight >= par
       THEN [rec EXCEPT !.asleep = @ + 1]
       ELSE [rec EXCEPT !.inFlight = @ + 1, !.fly[rec.activeTargetIndex + 1] = @ + 1]
  ELSE [rec EXCEPT !.done = @ + 1]

\* Array.from({ length: MAX_PAR }, pump): every pump runs to its first await
RECURSIVE StartPumps(_, _, _, _, _)
StartPumps(rec, k, par, durMs, running) ==
  IF k = 0 THEN rec
  ELSE StartPumps(LoopHead(rec, par, durMs, running), k - 1, par, durMs, running)

\* workers woken from the cap wait re-evaluate the loop head
RECURSIVE WakeSleepers(_, _, _, _, _)
WakeSleepers(rec, k, par, durMs, running) ==
  IF k = 0 THEN rec
  ELSE WakeSleepers(LoopHead([rec EXCEPT !.asleep = @ - 1], par, durMs, running),
                    k - 1, par, durMs, running)

\* the finally block without its decrement
FinallyLeaky(rec, tgt) == [rec EXCEPT !.fly[tgt + 1] = @ - 1]

\* finally { inFlight -= 1 } of a request that was sent to target index tgt
Finally(rec, tgt) == [rec EXCEPT !.inFlight = @ - 1, !.fly[tgt + 1] = @ - 1]

\* controller.abort(): every in-flight request rejects with AbortError and
\* its pump returns through the finally block
AbortPumps(rec) ==
  [rec EXCEPT !.inFlight = @ - SumSeq(rec.fly),
              !.done = @ + SumSeq(rec.fly),
              !.fly = Zeros(Len(rec.fly))]

\* the callback throttled by the time since the phase started
EmitsProgressSinceStart(rec) == rec.t >= PROGRESS_INTERVAL_MS

\* the throttle of the progress callback
EmitsProgress(rec) == rec.t - rec.lastProgressEmit >= PROGRESS_INTERVAL_MS

\* onProgress({bytes, count, elapsed, bps}) after lastProgressEmit = now
EmitProgress(rec) == [rec EXCEPT !.lastProgressEmit = rec.t, !.emits = @ + 1]

\* try-block of the download pump after a successful response of len bytes
DownloadSuccess(rec, len) ==
  LET a == [rec EXCEPT !.bytes = @ + len, !.count = @ + 1, !.lastError = NoError]
  IN IF EmitsProgress(a) THEN EmitProgress(a) ELSE a

\* a failed download request counted as a completed one
DownloadFailureCounted(rec, kind) ==
  [rec EXCEPT !.lastError = kind, !.failed = @ + 1, !.count = @ + 1]

\* catch-block of the download pump for a failure that is not an abort
DownloadFailure(rec, kind) == [rec EXCEPT !.lastError = kind, !.failed = @ + 1]

\* notifyTargetChange(reason): the record after the call and whether the
\* observer was called
NotifyFires(rec, reason) == ~(rec.lastNotifiedTarget = rec.activeTargetIndex /\ reason # "retry")
notifyTargetChange(rec, reason) ==
  IF NotifyFires(rec, reason)
  THEN [rec EXCEPT !.lastNotifiedTarget = rec.activeTargetIndex, !.notified = @ + 1]
  ELSE rec

\* a target skipped at every rotation
NextTargetIndexSkip(i, n) == (i + 2) % n

\* activeTargetIndex after advanceTarget
NextTargetIndex(i, n) == (i + 1) % n

\* the failure counter of the newly selected target kept
advanceTargetNoReset(rec, reason) ==
  IF Len(rec.fly) <= 1 THEN rec
  ELSE LET nxt == NextTargetIndex(rec.activeTargetIndex, Len(rec.fly))
       IN IF nxt # rec.activeTargetIndex
          THEN notifyTargetChange([rec EXCEPT !.activeTargetIndex = nxt], reason)
          ELSE rec

advanceTarget(rec, reason) ==
  IF Len(rec.fly) <= 1 THEN rec
  ELSE LET nxt == NextTargetIndex(rec.activeTargetIndex, Len(rec.fly))
       IN IF nxt # rec.activeTargetIndex
          THEN notifyTargetChange([rec EXCEPT !.activeTargetIndex = nxt,
                                              !.failureCounts[nxt + 1] = 0], reason)
          ELSE rec

\* try-block of the upload pump after a successful response
UploadSuccess(rec) ==
  LET a == [rec EXCEPT !.bytes = @ + UL_PAYLOAD_BYTES, !.count = @ + 1,
                       !.lastError = NoError,
                       !.failureCounts[rec.activeTargetIndex + 1] = 0]
  IN IF EmitsProgress(a) THEN EmitProgress(a) ELSE a

\* status derived from the error: its HTTP status, 0 for a TypeError
Rotating(kind) == kind \in {"429", "403", "transport"}

\* the consecutive-failure threshold left out
ShouldRotateStatusOnly(rec, kind) == Len(rec.fly) > 1 /\ Rotating(kind)

ShouldRotate(rec, kind) ==
  /\ Len(rec.fly) > 1
  /\ \/ Rotating(kind)
     \/ rec.failureCounts[rec.activeTargetIndex + 1] >= FAILURE_THRESHOLD

\* catch-block of the upload pump for a failure that is not an abort
UploadFailure(rec, kind) ==
  LET a == [rec EXCEPT !.lastError = kind, !.failed = @ + 1,
                       !.failureCounts[rec.activeTargetIndex + 1] = @ + 1]
  IN IF ShouldRotate(a, kind) THEN advanceTarget(a, "fallback") ELSE a

\* the last error raised even when bytes were transferred
TransferOutcomeStrict(rec) ==
  IF rec.lastError # NoError
  THEN [NoRet EXCEPT !.kind = "err", !.err = rec.lastError]
  ELSE [NoRet EXCEPT !.kind = "ok", !.bps = Bps(rec.bytes, rec.t), !.count = rec.count]

\* what the sampler settles with once the race is over
TransferOutcome(rec) ==
  IF rec.bytes = 0 /\ rec.lastError # NoError
  THEN [NoRet EXCEPT !.kind = "err", !.err = rec.lastError]
  ELSE [NoRet EXCEPT !.kind = "ok", !.bps = Bps(rec.bytes, rec.t), !.count = rec.count]

DurationMs(ph) == IF ph = "dl" THEN DL_DURATION_S * 1000 ELSE UL_DURATION_S * 1000
MaxPar(ph) == IF ph = "dl" THEN MAX_PAR_DL ELSE MAX_PAR_UL
WatchdogMs(ph) == DurationMs(ph) + WATCHDOG_EXTRA_MS


\* ---- measureDownload / measureUpload as state transformers ----

\* one pump more than MAX_PAR
InitDownloadExtraPump(running) ==
  StartPumps([NoX EXCEPT !.fly = Zeros(1), !.failureCounts = Zeros(1)],
             MAX_PAR_DL + 1, MAX_PAR_DL, DurationMs("dl"), running)

\* locals of measureDownload when the pumps have started
InitDownload(running) ==
  StartPumps([NoX EXCEPT !.fly = Zeros(1), !.failureCounts = Zeros(1)],
             MAX_PAR_DL, MAX_PAR_DL, DurationMs("dl"), running)

\* locals of measureUpload after notifyTargetChange('initial'), pumps started
InitUpload(n, running) ==
  StartPumps(notifyTargetChange([NoX EXCEPT !.fly = Zeros(n), !.failureCounts = Zeros(n)],
                                "initial"),
             MAX_PAR_UL, MAX_PAR_UL, DurationMs("ul"), running)

\* measureDownload up to its first await
measureDownload(S, r) ==
  [S EXCEPT !.abortersRef = registerAborter(@, r, "dl"),
            !.sig[r] = FALSE,
            !.x[r] = InitDownload(S.runningRef),
            !.pc[r] = "dl"]

\* measureUpload up to its first await, or its configuration error
measureUpload(S, r) ==
  IF Len(Targets) = 0
  THEN [S EXCEPT !.sig[r] = FALSE, !.x[r] = NoX, !.pc[r] = "ulRet",
                 !.ret[r] = [NoRet EXCEPT !.kind = "err",
                                          !.err = "No upload endpoints configured"]]
  ELSE logProgress([S EXCEPT !.abortersRef = registerAborter(@, r, "ul"),
                             !.sig[r] = FALSE,
                             !.x[r] = InitUpload(Len(Targets), S.runningRef),
                             !.pc[r] = "ul"],
                   "Upload endpoint")

\* a download request completes with a success status and a body of len bytes
downloadOk(S, r, len) ==
  LET a == DownloadSuccess(S.x[r], len)
      S1 == [S EXCEPT !.x[r] = LoopHead(Finally(a, 0), MAX_PAR_DL, DurationMs("dl"),
                                        S.runningRef)]
  IN IF EmitsProgress(S.x[r]) THEN logProgress(S1, "Download progress") ELSE S1

\* a download request fails: error status, or a transport error
downloadFails(S, r, kind) ==
  [S EXCEPT !.x[r] = LoopHead(Finally(DownloadFailure(@, kind), 0),
                              MAX_PAR_DL, DurationMs("dl"), S.runningRef)]

\* an upload request that was sent to target index tgt completes successfully
uploadOk(S, r, tgt) ==
  LET a == UploadSuccess(S.x[r])
      S1 == [S EXCEPT !.x[r] = LoopHead(Finally(a, tgt), MAX_PAR_UL, DurationMs("ul"),
                                        S.runningRef)]
  IN IF EmitsProgress(S.x[r]) THEN logProgress(S1, "Upload progress") ELSE S1

\* an upload request that was sent to target index tgt fails
uploadFails(S, r, tgt, kind) ==
  LET a == UploadFailure(S.x[r], kind)
      S1 == [S EXCEPT !.x[r] = LoopHead(Finally(a, tgt), MAX_PAR_UL, DurationMs("ul"),
                                        S.runningRef)]
  IN IF a.lastNotifiedTarget # S.x[r].lastNotifiedTarget
     THEN logProgress(S1, "Switched upload endpoint")
     ELSE S1

\* the code after the race: controller.abort(); unregister(); throw or return
settleTransfer(S, r) ==
  [S EXCEPT !.sig[r] = TRUE,
            !.abortersRef = unregister(@, r, S.pc[r]),
            !.ret[r] = TransferOutcome(S.x[r]),
            !.x[r] = AbortPumps(@),
            !.pc[r] = IF S.pc[r] = "dl" THEN "dlRet" ELSE "ulRet"]

\* ---- measureLatency ----

\* measureLatency up to its first await: the first probe is in flight
measureLatency(S, r) ==
  [S EXCEPT !.abortersRef = registerAborter(@, r, "rtt"),
            !.sig[r] = FALSE,
            !.x[r] = NoX,
            !.l[r] = [NoL EXCEPT !.st = IF S.runningRef THEN "probe" ELSE "exit"],
            !.pc[r] = "rtt"]

\* after the try/catch of a probe: break when stopped, otherwise sleep(120)
AfterProbe(rec, running) ==
  IF ~running THEN [rec EXCEPT !.st = "exit"]
  ELSE [rec EXCEPT !.st = "sleep", !.sleepLeft = PROBE_SLEEP_MS]

\* a probe completes with a success status after rtt milliseconds
probeOk(S, r, rtt) ==
  LET a == [S.l[r] EXCEPT !.durations = Append(@, rtt), !.lastError = NoError]
  IN logProgress([S EXCEPT !.l[r] = AfterProbe(a, S.runningRef)],
                 "Latency sample")

\* a failed probe counted twice
probeFailsCountedTwice(S, r, kind) ==
  LET a == [S.l[r] EXCEPT !.drops = @ + 2, !.lastError = kind]
  IN logProgress([S EXCEPT !.l[r] = AfterProbe(a, S.runningRef)],
                 "Latency request failed")

\* a probe fails for a reason other than an abort: one drop
probeFails(S, r, kind) ==
  LET a == [S.l[r] EXCEPT !.drops = @ + 1, !.lastError = kind]
  IN logProgress([S EXCEPT !.l[r] = AfterProbe(a, S.runningRef)],
                 "Latency request failed")

\* the abort leaves the last error in place
probeAbortedKeepsError(S, r) == [S EXCEPT !.l[r] = [@ EXCEPT !.st = "exit"]]

\* the probe's fetch rejects with AbortError: lastError = null; break
probeAborted(S, r) ==
  [S EXCEPT !.l[r] = [@ EXCEPT !.lastError = NoError, !.st = "exit"]]

\* the loop test off by one: a thirteenth probe
sleepDoneOneMore(S, r) ==
  [S EXCEPT !.l[r] = [@ EXCEPT !.index = @ + 1,
                               !.st = IF S.l[r].index + 1 <= RTT_PINGS /\ S.runningRef
                                      THEN "probe" ELSE "exit"]]

\* sleep(120) is over: index += 1, loop test, running test, next fetch
sleepDone(S, r) ==
  [S EXCEPT !.l[r] = [@ EXCEPT !.index = @ + 1,
                               !.st = IF S.l[r].index + 1 < RTT_PINGS /\ S.runningRef
                                      THEN "probe" ELSE "exit"]]

\* (drops / (drops + durations.length)) * 100, in per mille; 0 / 0 is NaN
LossOf(drops, n) == IF drops + n = 0 THEN NaN ELSE (drops * 1000) \div (drops + n)

LatencyOutcome(rec) ==
  IF Len(rec.durations) = 0 /\ rec.lastError # NoError
  THEN [NoRet EXCEPT !.kind = "err", !.err = rec.lastError]
  ELSE [NoRet EXCEPT !.kind = "ok",
                     !.avg = SumSeq(rec.durations) \div Max(1, Len(rec.durations)),
                     !.jit = IF Len(rec.durations) > 1 THEN stddev(rec.durations) ELSE 0,
                     !.loss = LossOf(rec.drops, Len(rec.durations)),
                     !.count = Len(rec.durations)]

\* the latency sampler settles without unregister()
latencySettleKeepsHandle(S, r) ==
  [S EXCEPT !.sig[r] = TRUE,
            !.ret[r] = LatencyOutcome(S.l[r]),
            !.l[r] = NoL,
            !.pc[r] = "rttRet"]

\* the code after the probe loop: aggregate; controller.abort(); unregister();
\* throw or return
latencySettle(S, r) ==
  [S EXCEPT !.sig[r] = TRUE,
            !.abortersRef = unregister(@, r, "rtt"),
            !.ret[r] = LatencyOutcome(S.l[r]),
            !.l[r] = NoL,
            !.pc[r] = "rttRet"]


\* ---- startTests / stopTests ----

\* the registry emptied without aborting its controllers
resetAbortersClearsOnly(S) == [S EXCEPT !.abortersRef = {}]

\* resetAborters(): abort every registered controller, empty the registry
resetAborters(S) ==
  [S EXCEPT !.sig = [q \in Runs |-> S.sig[q] \/ Registered(S.abortersRef, q)],
            !.x = [q \in Runs |-> IF Registered(S.abortersRef, q)
                                  THEN AbortPumps(S.x[q]) ELSE S.x[q]],
            !.abortersRef = {}]

\* the latency flag left out of the aggregate
hasErrorsTransfersOnly(e) == e.dl \/ e.ul

hasErrors(e) == e.dl \/ e.ul \/ e.rtt
finalLabel(e) == IF hasErrors(e) THEN "Test finished with warnings" ELSE "Test complete"

\* the invocation returns early: its locals are gone
Return(S, r) ==
  [S EXCEPT !.pc[r] = "end", !.enc[r] = NoEnc, !.ret[r] = NoRet, !.x[r] = NoX,
            !.l[r] = NoL, !.sig[r] = FALSE, !.cancelled = @ \ {r}]

\* the invocation reaches the end of startTests
Finish(S, r) == [Return(S, r) EXCEPT !.pc[r] = "done"]

\* the fatal handler that leaves the running flag set
handleTestErrorKeepsRunning(S, r) ==
  Return(logProgress([resetAborters(S) EXCEPT
                        !.isRunning = FALSE,
                        !.status = [label |-> "Test failed", step |-> 0],
                        !.alerts = @ + 1],
                     "Fatal error"), r)

\* the outer catch of startTests: handleTestError(error), then the invocation ends
handleTestError(S, r) ==
  Return(logProgress([resetAborters([S EXCEPT !.runningRef = FALSE]) EXCEPT
                        !.isRunning = FALSE,
                        !.status = [label |-> "Test failed", step |-> 0],
                        !.alerts = @ + 1],
                     "Fatal error"), r)

\* startTests from resetAborters() to the first await of measureDownload
beginTests(S, r) ==
  LET S1 == [resetAborters(S) EXCEPT
               !.runningRef = TRUE, !.isRunning = TRUE,
               !.dlBps = Null, !.ulBps = Null, !.latencyMs = Null, !.jitterMs = Null,
               !.lossPct = Null, !.samples = NoSamples, !.stepErrors = NoStepErrors,
               !.progressDetails = Logged({}, "Initializing test environment"),
               !.enc[r] = NoEnc,
               !.pc = [q \in Runs |-> IF S.pc[q] = "done" THEN "end" ELSE S.pc[q]],
               !.status = [label |-> "Measuring download speed", step |-> 1]]
  IN IF fault = "dl" THEN handleTestError(S1, r)
     ELSE measureDownload(logProgress(S1, "Download test started"), r)

\* a sampler's error treated as fatal to the run
phaseDoneFatal(S, r, ph, name, written) ==
  IF S.ret[r].kind = "ok"
  THEN [(IF S.runningRef
         THEN logProgress(written, name \o " test completed successfully")
         ELSE logProgress(S, name \o " measurement aborted")) EXCEPT !.ret[r] = NoRet]
  ELSE [logProgress([S EXCEPT !.stepErrors[ph] = S.ret[r].err,
                              !.runningRef = FALSE, !.isRunning = FALSE,
                              !.status = [label |-> "Test failed", step |-> 0]],
                    "Fatal error") EXCEPT !.ret[r] = NoRet]

\* the try/catch around a sampler: result written when still running,
\* error recorded in the phase's entry of stepErrors
phaseDone(S, r, ph, name, written) ==
  LET ok == S.ret[r].kind = "ok"
      S1 == IF ok
            THEN IF S.runningRef
                 THEN logProgress(written, name \o " test completed successfully")
                 ELSE logProgress(S, name \o " measurement aborted")
            ELSE logProgress([S EXCEPT !.enc[r][ph] = TRUE,
                                       !.stepErrors[ph] = S.ret[r].err],
                             name \o " test error")
  IN [S1 EXCEPT !.ret[r] = NoRet]

\* startTests resumes after await measureDownload(...) and runs up to the
\* first await of measureUpload
afterDownload(S, r) ==
  LET o == S.ret[r]
      S1 == phaseDone(S, r, "dl", "Download",
                      [S EXCEPT !.dlBps = o.bps, !.samples.dl = o.count])
  IN IF ~S1.runningRef THEN Return(S1, r)
     ELSE IF fault = "ul" THEN handleTestError(S1, r)
     ELSE measureUpload(logProgress([S1 EXCEPT !.status = [label |-> "Measuring upload speed",
                                                           step |-> 2]],
                                    "Upload test started"), r)

\* startTests resumes after await measureUpload(...) and runs up to the
\* first await of measureLatency
afterUpload(S, r) ==
  LET o == S.ret[r]
      S1 == phaseDone(S, r, "ul", "Upload",
                      [S EXCEPT !.ulBps = o.bps, !.samples.ul = o.count])
  IN IF ~S1.runningRef THEN Return(S1, r)
     ELSE IF fault = "rtt" THEN handleTestError(S1, r)
     ELSE measureLatency(logProgress([S1 EXCEPT !.status = [label |-> "Measuring latency & quality",
                                                            step |-> 3]],
                                     "Latency test started"), r)

\* startTests resumes after await measureLatency(...) and runs to its end
afterLatency(S, r) ==
  LET o == S.ret[r]
      S1 == phaseDone(S, r, "rtt", "Latency",
                      [S EXCEPT !.latencyMs = o.avg, !.jitterMs = o.jit,
                                !.lossPct = o.loss, !.samples.rtt = o.count])
  IN IF ~S1.runningRef THEN Return(S1, r)
     ELSE IF fault = "final" THEN handleTestError(S1, r)
     ELSE Finish(logProgress([S1 EXCEPT !.runningRef = FALSE, !.isRunning = FALSE,
                                        !.status = [label |-> finalLabel(S1.enc[r]),
                                                    step |-> TOTAL_STEPS]],
                             finalLabel(S1.enc[r])), r)

\* stopTests, when a test is running
stop(S) ==
  logProgress([resetAborters([S EXCEPT !.runningRef = FALSE, !.isRunning = FALSE]) EXCEPT
                 !.status = [label |-> "Test stopped", step |-> 0],
                 !.cancelled = @ \cup {r \in Runs : S.pc[r] \notin {"none", "end", "done"}}],
              "Test stopped by user")

\* ---- promise continuations ----

\* a continuation of invocation r is runnable
Runnable(S, r) ==
  \/ S.pc[r] \in {"dlRet", "ulRet", "rttRet"}
  \/ S.pc[r] \in {"dl", "ul"} /\ S.x[r].done = MaxPar(S.pc[r])
  \/ S.pc[r] = "rtt" /\ (S.l[r].st = "exit" \/ (S.l[r].st = "probe" /\ S.sig[r]))

\* the runnable continuation of invocation r runs up to its next await
Continue(S, r) ==
  CASE S.pc[r] = "dlRet" -> afterDownload(S, r)
    [] S.pc[r] = "ulRet" -> afterUpload(S, r)
    [] S.pc[r] = "rttRet" -> afterLatency(S, r)
    [] S.pc[r] \in {"dl", "ul"} -> settleTransfer(S, r)
    [] S.pc[r] = "rtt" /\ S.l[r].st = "exit" -> latencySettle(S, r)
    [] OTHER -> probeAborted(S, r)

\* run continuations until none is runnable
RECURSIVE Close(_)
Close(S) ==
  IF \E r \in Runs : Runnable(S, r)
  THEN Close(Continue(S, CHOOSE r \in Runs :
                           Runnable(S, r) /\ \A q \in Runs : Runnable(S, q) => r <= q))
  ELSE S

\* ---- tasks ----

\* startTests without its first line
startTestsUnguarded(r) ==
  /\ startsLeft > 0
  /\ pc[r] = "none" /\ \A q \in Runs : q < r => pc[q] # "none"
  /\ ProgramBecomes(Close(beginTests(State, r)))
  /\ startsLeft' = startsLeft - 1
  /\ UNCHANGED << envEndpoints, script, fault, rateArg, rateRet >>

startTests(r) ==
  /\ startsLeft > 0
  /\ pc[r] = "none" /\ \A q \in Runs : q < r => pc[q] # "none"
  /\ IF runningRef THEN UNCHANGED vars
     ELSE /\ ProgramBecomes(Close(beginTests(State, r)))
          /\ startsLeft' = startsLeft - 1
          /\ UNCHANGED << envEndpoints, script, fault, rateArg, rateRet >>

stopTests ==
  IF ~runningRef THEN UNCHANGED vars ELSE Becomes(Close(stop(State)))

DownloadRequestOk(r, len) ==
  /\ pc[r] = "dl" /\ x[r].fly[1] > 0 /\ x[r].count < MaxTransfers
  /\ Becomes(Close(downloadOk(State, r, len)))

DownloadRequestFails(r, kind) ==
  /\ pc[r] = "dl" /\ x[r].fly[1] > 0 /\ x[r].failed < MaxFailures
  /\ Becomes(Close(downloadFails(State, r, kind)))

UploadRequestOk(r, tgt) ==
  /\ pc[r] = "ul" /\ tgt + 1 \in DOMAIN x[r].fly /\ x[r].fly[tgt + 1] > 0
  /\ x[r].count < MaxTransfers
  /\ Becomes(Close(uploadOk(State, r, tgt)))

\* an upload request fails with what the scenario allows
UploadFails(r, tgt, kind) ==
  /\ pc[r] = "ul" /\ tgt + 1 \in DOMAIN x[r].fly /\ x[r].fly[tgt + 1] > 0
  /\ script \in {Mixed, kind}
  /\ Becomes(Close(uploadFails(State, r, tgt, kind)))

UploadRequestFails(r, tgt, kind) ==
  /\ x[r].failed < MaxFailures
  /\ UploadFails(r, tgt, kind)

\* as UploadRequestFails, with enough failures for the failure counter of a
\* target to reach its threshold
UploadRequestFailsOften(r, tgt, kind) ==
  /\ x[r].failed < MaxUploadFailures
  /\ UploadFails(r, tgt, kind)

ProbeOk(r, rtt) ==
  /\ pc[r] = "rtt" /\ l[r].st = "probe"
  /\ rtt # SetMin(ProbeRtts) => l[r].index < SlowWindow
  /\ Becomes(Close(probeOk(State, r, rtt)))

\* a probe fails: the path is dead (no probe has succeeded so far), or it has
\* dropped fewer than MaxFailures probes
ProbeFails(r, kind) ==
  /\ pc[r] = "rtt" /\ l[r].st = "probe"
  /\ l[r].drops < MaxFailures \/ Len(l[r].durations) = 0
  /\ Becomes(Close(probeFails(State, r, kind)))

\* ---- time ----

Timed(r) == pc[r] \in {"dl", "ul"} \/ (pc[r] = "rtt" /\ l[r].st = "sleep")

\* time left until the next instant at which invocation r must be looked at
Gaps(r) ==
  IF pc[r] \in {"dl", "ul"}
  THEN {WatchdogMs(pc[r]) - x[r].t}
         \cup (IF x[r].t < DurationMs(pc[r]) THEN {DurationMs(pc[r]) - x[r].t} ELSE {})
         \cup (IF x[r].asleep > 0 THEN {CAP_SLEEP_MS} ELSE {})
  ELSE {l[r].sleepLeft}

Delta == SetMin({TickMs} \cup UNION {Gaps(r) : r \in {q \in Runs : Timed(q)}})

\* time has passed: clocks advance, workers in the cap wait wake up
elapse(S, d) ==
  [S EXCEPT !.x = [r \in Runs |->
                     IF S.pc[r] \in {"dl", "ul"}
                     THEN WakeSleepers([S.x[r] EXCEPT !.t = @ + d], S.x[r].asleep,
                                       MaxPar(S.pc[r]), DurationMs(S.pc[r]), S.runningRef)
                     ELSE S.x[r]],
            !.l = [r \in Runs |->
                     IF S.pc[r] = "rtt" /\ S.l[r].st = "sleep"
                     THEN [S.l[r] EXCEPT !.sleepLeft = @ - d]
                     ELSE S.l[r]]]

\* a race without the watchdog timer
WatchdogNever(S, r) == FALSE

\* the watchdog armed with the margin counted twice
WatchdogLate(S, r) ==
  S.pc[r] \in {"dl", "ul"} /\ S.x[r].t >= WatchdogMs(S.pc[r]) + WATCHDOG_EXTRA_MS

\* sleep(duration + 2000) of a transfer phase is over: the watchdog wins the race
WatchdogDue(S, r) == S.pc[r] \in {"dl", "ul"} /\ S.x[r].t >= WatchdogMs(S.pc[r])

\* sleep(120) of the probe loop is over
SleepOver(S, r) == S.pc[r] = "rtt" /\ S.l[r].st = "sleep" /\ S.l[r].sleepLeft = 0

TimerDue(S, r) == WatchdogDue(S, r) \/ SleepOver(S, r)

\* the callback of the due timer of invocation r
fireTimer(S, r) == IF SleepOver(S, r) THEN sleepDone(S, r) ELSE settleTransfer(S, r)

\* every due timer fires, each followed by the continuations it releases
RECURSIVE FireTimers(_)
FireTimers(S) ==
  IF \E r \in Runs : TimerDue(S, r)
  THEN FireTimers(Close(fireTimer(S, CHOOSE r \in Runs :
                                      TimerDue(S, r) /\ \A q \in Runs : TimerDue(S, q) => r <= q)))
  ELSE S

\* time passes up to the next instant of interest; the timers due then fire
Tick ==
  /\ \E r \in Runs : Timed(r)
  /\ Delta > 0
  /\ Becomes(FireTimers(Close(elapse(State, Delta))))

Next ==
  \/ \E r \in Runs : startTests(r)
  \/ stopTests
  \/ \E r \in Runs, len \in BodyLengths : DownloadRequestOk(r, len)
  \/ \E r \in Runs, kind \in DownloadFailKinds : DownloadRequestFails(r, kind)
  \/ \E r \in Runs, tgt \in 0..5 : UploadRequestOk(r, tgt)
  \/ \E r \in Runs, tgt \in 0..5, kind \in UploadFailKinds : UploadRequestFails(r, tgt, kind)
  \/ \E r \in Runs, rtt \in ProbeRtts : ProbeOk(r, rtt)
  \/ \E r \in Runs, kind \in ProbeFailKinds : ProbeFails(r, kind)
  \/ Tick

Spec == Init /\ [][Next]_vars

SpecRestart == InitRestart /\ [][Next]_vars

\* the memo caps of the component: empty before anything was measured
caps ==
  IF dlBps = Null /\ ulBps = Null /\ latencyMs = Null /\ lossPct = Null
     /\ stepErrors = NoStepErrors
  THEN << >>
  ELSE rateCapabilities(Measurements(dlBps, ulBps, latencyMs, lossPct))

\* ---- the upload phase with custom endpoints and scripted failures ----

\* no download request ever completes: the watchdog ends the download phase
InitEndpoints ==
  /\ \E env \in EnvChoices : InitProgram(1, env)
  /\ script \in Scripts
  /\ fault = NoFault
  /\ rateArg = NoMeasurements /\ rateRet = << >>

NextUpload ==
  \/ \E r \in Runs : startTests(r)
  \/ \E r \in Runs, tgt \in 0..5 : UploadRequestOk(r, tgt)
  \/ \E r \in Runs, tgt \in 0..5, kind \in UploadFailKinds : UploadRequestFailsOften(r, tgt, kind)
  \/ Tick

SpecUpload == InitEndpoints /\ [][NextUpload]_vars

\* ---- a statement of startTests outside the inner try blocks throws ----

\* the user may stop a test and start the next one
InitFatal ==
  /\ InitProgram(MaxRuns + 1, << >>)
  /\ script = Mixed
  /\ fault \in FaultPoints
  /\ rateArg = NoMeasurements /\ rateRet = << >>

\* every request succeeds
NextFatal ==
  \/ \E r \in Runs : startTests(r)
  \/ stopTests
  \/ \E r \in Runs, len \in BodyLengths : DownloadRequestOk(r, len)
  \/ \E r \in Runs, tgt \in 0..5 : UploadRequestOk(r, tgt)
  \/ \E r \in Runs, rtt \in ProbeRtts : ProbeOk(r, rtt)
  \/ Tick

SpecFatal == InitFatal /\ [][NextFatal]_vars

\* ---- the button pressed again: no statement throws, every request succeeds ----

\* the user presses the button for two tests
InitStartStop ==
  /\ InitProgram(2, << >>)
  /\ script = Mixed
  /\ fault = NoFault
  /\ rateArg = NoMeasurements /\ rateRet = << >>

SpecStartStop == InitStartStop /\ [][NextFatal]_vars

\* ---- the progress callbacks of a run whose requests all succeed ----

DownloadRequestOkOften(r, len) ==
  /\ pc[r] = "dl" /\ x[r].fly[1] > 0 /\ x[r].count < MaxProgressTransfers
  /\ Becomes(Close(downloadOk(State, r, len)))

UploadRequestOkOften(r, tgt) ==
  /\ pc[r] = "ul" /\ tgt + 1 \in DOMAIN x[r].fly /\ x[r].fly[tgt + 1] > 0
  /\ x[r].count < MaxProgressTransfers
  /\ Becomes(Close(uploadOk(State, r, tgt)))

FineDelta == SetMin({FineTickMs} \cup UNION {Gaps(r) : r \in {q \in Runs : Timed(q)}})

\* time passes in steps shorter than the interval of the throttle
TickFine ==
  /\ \E r \in Runs : Timed(r)
  /\ FineDelta > 0
  /\ Becomes(FireTimers(Close(elapse(State, FineDelta))))

InitProgress ==
  /\ InitProgram(1, << >>)
  /\ script = Mixed
  /\ fault = NoFault
  /\ rateArg = NoMeasurements /\ rateRet = << >>

NextProgress ==
  \/ \E r \in Runs : startTests(r)
  \/ \E r \in Runs : DownloadRequestOkOften(r, DL_CHUNK_BYTES)
  \/ \E r \in Runs, tgt \in 0..5 : UploadRequestOkOften(r, tgt)
  \/ TickFine

SpecProgress == InitProgress /\ [][NextProgress]_vars

\* ---- one run under the scheduling of the event loop ----

\* one start; a statement outside the inner try blocks may throw
InitLive ==
  /\ InitProgram(1, << >>)
  /\ script = Mixed
  /\ fault \in FaultPoints \cup {NoFault}
  /\ rateArg = NoMeasurements /\ rateRet = << >>

\* the probe in flight settles, with a response or with an error
ProbeSettles ==
  \/ \E r \in Runs, rtt \in ProbeRtts : ProbeOk(r, rtt)
  \/ \E r \in Runs, kind \in ProbeFailKinds : ProbeFails(r, kind)

NextLive ==
  \/ \E r \in Runs : startTests(r)
  \/ stopTests
  \/ \E r \in Runs, len \in BodyLengths : DownloadRequestOk(r, len)
  \/ \E r \in Runs, kind \in DownloadFailKinds : DownloadRequestFails(r, kind)
  \/ \E r \in Runs, tgt \in 0..5 : UploadRequestOk(r, tgt)
  \/ \E r \in Runs, tgt \in 0..5, kind \in UploadFailKinds : UploadRequestFails(r, tgt, kind)
  \/ ProbeSettles
  \/ Tick

\* ENABLED <<Tick>>_vars, as a predicate of the state: a timer is pending
TimerPending == (\E r \in Runs : Timed(r)) /\ Delta > 0

\* WF_vars(Tick) written out with TimerPending: a timer that stays pending fires
TimersFire == ([]<>~TimerPending) \/ ([]<><<Tick>>_vars)

\* ENABLED <<ProbeSettles>>_vars, as a predicate of the state
ProbePending == \E r \in Runs : pc[r] = "rtt" /\ l[r].st = "probe"

\* WF_vars(ProbeSettles) written out with ProbePending
ProbesSettle == ([]<>~ProbePending) \/ ([]<><<ProbeSettles>>_vars)

\* timers that are due fire and every latency probe settles; nothing is
\* assumed of the download and upload requests
SpecLive == InitLive /\ [][NextLive]_vars /\ TimersFire /\ ProbesSettle

\* ---- rateCapabilities on its own ----

\* measurements in the units of the catalog, around every threshold
DlValues == {Null, 0, 299, 300, 1500, 5000, 10000, 14999, 15000, 25000, 30000}
UlValues == {Null, 0, 299, 300, 1000, 5000}
RttValues == {Null, NaN, 20, 40, 41, 80, 150, 200, 201}
LossValues == {Null, NaN, 0, 5, 15, 16, 20, 25, 30, 50, 51}

InitRating ==
  /\ InitProgram(0, << >>)
  /\ script = Mixed
  /\ fault = NoFault
  /\ rateArg \in [dlMbps : DlValues, ulMbps : UlValues, rtt : RttValues, loss : LossValues]
  /\ rateRet = << >>

\* the call returns
Rate ==
  /\ rateRet = << >>
  /\ rateRet' = rateCapabilities(rateArg)
  /\ UNCHANGED << envEndpoints, dlBps, ulBps, latencyMs, jitterMs, lossPct, samples,
                  stepErrors, progressDetails, isRunning, status, runningRef, abortersRef,
                  pc, enc, sig, x, l, cancelled, startsLeft, script, alerts, fault, rateArg >>

NextRating == Rate

SpecRating == InitRating /\ [][NextRating]_vars


\* ---- properties ----

\* C1: when a sampler raises, the error is recorded in that phase's entry of
\* stepErrors and in no other, the status does not become 'Test failed', and
\* while the run is still running the next phase is entered.
C1_PhaseIsolation ==
  [][\A ph \in Phases :
       (stepErrors[ph] = NoError /\ stepErrors'[ph] # NoError) =>
         /\ \A o \in Phases \ {ph} : stepErrors'[o] = stepErrors[o]
         /\ status'.label # "Test failed"
         /\ (runningRef' /\ ph = "dl") => \E r \in Runs : pc[r] = "dl" /\ pc'[r] = "ul"
         /\ (runningRef' /\ ph = "ul") => \E r \in Runs : pc[r] = "ul" /\ pc'[r] = "rtt"]_vars

\* the download raised and the upload is being measured
C1_Witness ==
  \E r \in Runs : pc[r] = "ul" /\ runningRef /\ enc[r].dl /\ stepErrors.dl # NoError
                  /\ status.label = "Measuring upload speed"

\* C2: at any moment at most one sampler is unsettled, also when a stop is
\* followed at once by a new start.
C2_PhasesNeverOverlap == Cardinality({r \in Runs : pc[r] \in Phases}) <= 1

\* C3: stopTests sets the status to 'Test stopped' and aborts every registered
\* request, and a step in which only the stopped run moves on changes no
\* result, no sample count and no status.
C3_StopSuppressesWrites ==
  [][/\ (runningRef /\ ~runningRef' /\ "Test stopped by user" \in progressDetails'
             /\ status'.label \notin {"Test complete", "Test finished with warnings"})
          => /\ status' = [label |-> "Test stopped", step |-> 0]
             /\ abortersRef' = {}
             /\ \A r \in Runs : x'[r].inFlight = 0
     /\ \A r \in cancelled :
          (pc'[r] # pc[r] /\ \A q \in Runs \ {r} : pc'[q] = pc[q])
            => (results' = results /\ status' = status)]_vars

\* C4: a stop records no per-phase error: neither the stop itself nor a later
\* step of the stopped run changes stepErrors or logs a 'test error' entry.
C4_CancellationNotAnError ==
  [][LET errs(log) == log \cap {"Download test error", "Upload test error",
                                  "Latency test error"}
         stops == runningRef /\ ~runningRef' /\ status'.label = "Test stopped"
         resumes == \E r \in cancelled :
                      pc'[r] # pc[r] /\ \A q \in Runs \ {r} : pc'[q] = pc[q]
     IN (stops \/ resumes) =>
          (stepErrors' = stepErrors /\ errs(progressDetails') = errs(progressDetails))]_vars

\* C5: a phase's result and its error are never both set; once a phase of a
\* run that was not cancelled has settled exactly one of them is set; a run
\* cancelled during a phase leaves both absent for that phase.
C5_ResultErrorExclusive ==
  [][LET res(ph) == IF ph = "dl" THEN dlBps' ELSE IF ph = "ul" THEN ulBps' ELSE latencyMs'
         settled(r) == IF pc'[r] = "ul" THEN {"dl"}
                       ELSE IF pc'[r] = "rtt" THEN {"dl", "ul"}
                       ELSE IF pc'[r] = "done" THEN Phases ELSE {}
         after(ph) == IF ph = "dl" THEN Phases ELSE IF ph = "ul" THEN {"ul", "rtt"} ELSE {"rtt"}
     IN /\ \A ph \in Phases : ~(res(ph) # Null /\ stepErrors'[ph] # NoError)
        /\ \A r \in Runs : (r \notin cancelled' /\ \A q \in Runs : q > r => pc'[q] = "none") =>
             \A ph \in settled(r) : (res(ph) # Null) # (stepErrors'[ph] # NoError)
        /\ \A r \in Runs :
             (runningRef /\ ~runningRef' /\ status'.label = "Test stopped" /\ pc[r] \in Phases) =>
               \A ph \in after(pc[r]) : res(ph) = Null /\ stepErrors'[ph] = NoError]_vars

\* C6: a download or upload phase is never in progress at or beyond its
\* duration plus 2 seconds, and when the watchdog fires the phase's controller
\* is aborted, its handle leaves the registry and no request stays in flight.
C6_Watchdog ==
  \A r \in Runs : pc[r] \in {"dl", "ul"} =>
    /\ x[r].t < WatchdogMs(pc[r])
    /\ LET S == settleTransfer(State, r)
       IN S.sig[r] /\ S.x[r].inFlight = 0 /\ SumSeq(S.x[r].fly) = 0
          /\ << r, pc[r] >> \notin S.abortersRef

\* no download request ever completed, the watchdog ended the phase and the
\* upload has just begun
C6_Witness ==
  \E r \in Runs : pc[r] = "ul" /\ x[r].t = 0 /\ dlBps = 0 /\ samples.dl = 0
                  /\ stepErrors.dl = NoError /\ abortersRef = {<< r, "ul" >>}

\* C7: a download or upload phase in which a request error was recorded never
\* settles as a zero-throughput success.
C7_ZeroBytesWithErrorRaises ==
  [][\A r \in Runs :
       /\ (pc[r] = "dl" /\ pc'[r] = "ul" /\ x[r].failed > 0) => dlBps' # 0
       /\ (pc[r] = "ul" /\ pc'[r] = "rtt" /\ x[r].failed > 0) => ulBps' # 0]_vars

\* C8: a phase that has transferred bytes settles as a success with a positive
\* throughput and at least one sample, whatever failed; a phase error is
\* recorded only when no byte was transferred.
C8_GracefulDegradation ==
  [][\A r \in Runs :
       /\ (pc[r] = "dl" /\ pc'[r] = "ul" /\ x[r].bytes > 0)
            => (dlBps' > 0 /\ samples'.dl >= 1 /\ stepErrors'.dl = NoError)
       /\ (pc[r] = "ul" /\ pc'[r] = "rtt" /\ x[r].bytes > 0)
            => (ulBps' > 0 /\ samples'.ul >= 1 /\ stepErrors'.ul = NoError)
       /\ (pc[r] \in {"dl", "ul"} /\ pc'[r] # pc[r]
           /\ stepErrors[pc[r]] = NoError /\ stepErrors'[pc[r]] # NoError)
            => x[r].bytes = 0]_vars

\* bytes were transferred, a later request failed, and the download would
\* settle as a success
C8_Witness ==
  \E r \in Runs : pc[r] = "dl" /\ x[r].bytes > 0 /\ x[r].failed > 0
                  /\ x[r].lastError # NoError /\ TransferOutcome(x[r]).kind = "ok"

\* C9: the invocation that reaches the end of startTests leaves step 3, the
\* running flag false, and the label 'Test complete' exactly when none of its
\* phases raised, 'Test finished with warnings' exactly when one did (the
\* latency phase raised when this step put its message into stepErrors).
C9_TerminalFlag ==
  [][\A r \in Runs : (pc[r] = "rtt" /\ pc'[r] = "done") =>
       LET raised == enc[r].dl \/ enc[r].ul
                       \/ (stepErrors.rtt = NoError /\ stepErrors'.rtt # NoError)
       IN /\ status'.step = TOTAL_STEPS /\ ~runningRef' /\ ~isRunning'
          /\ (status'.label = "Test complete") <=> ~raised
          /\ (status'.label = "Test finished with warnings") <=> raised]_vars

\* a run ended with warnings because only its latency phase raised
C9_Witness ==
  \E r \in Runs : pc[r] = "done" /\ ~runningRef
                  /\ stepErrors.dl = NoError /\ stepErrors.ul = NoError
                  /\ stepErrors.rtt # NoError /\ latencyMs = Null
                  /\ status = [label |-> "Test finished with warnings", step |-> TOTAL_STEPS]

\* C10: while the download of a run is measuring, every result, sample count
\* and per-phase error is the cleared one: no value of a previous run shows.
C10_StartResetsEverything ==
  \A r \in Runs : pc[r] = "dl" =>
    /\ dlBps = Null /\ ulBps = Null /\ latencyMs = Null /\ jitterMs = Null /\ lossPct = Null
    /\ samples = NoSamples /\ stepErrors = NoStepErrors
    /\ progressDetails \subseteq {"Initializing test environment", "Download test started",
                                  "Download progress"}

\* C11: in a download or upload phase the in-flight count is between 0 and
\* maxParallel and equals the number of requests outstanding, and every worker
\* is in a request, in the cap wait or terminated, so that the count is 0 once
\* all workers have terminated.
C11_BoundedParallelism ==
  \A r \in Runs : pc[r] \in {"dl", "ul"} =>
    /\ x[r].inFlight >= 0 /\ x[r].inFlight <= MaxPar(pc[r])
    /\ x[r].inFlight = SumSeq(x[r].fly)
    /\ x[r].inFlight + x[r].asleep + x[r].done = MaxPar(pc[r])
    /\ x[r].done = MaxPar(pc[r]) => x[r].inFlight = 0

\* past the deadline of the download some workers have terminated and others
\* still wait for their response
C11_Witness ==
  \E r \in Runs : pc[r] = "dl" /\ x[r].t >= DurationMs("dl") /\ x[r].done > 0
                  /\ x[r].inFlight > 0 /\ x[r].inFlight < MAX_PAR_DL

\* C12: a failed upload request advances the active target exactly when there
\* is more than one target and the failure is HTTP 429, HTTP 403, a transport
\* error, or the third consecutive failure counted against the active target;
\* no other step of the phase changes the active target, and with a single
\* target nothing does.
C12_RotationTrigger ==
  [][\A r \in Runs : (pc[r] = "ul" /\ pc'[r] = "ul") =>
       LET i == x[r].activeTargetIndex
           kind == x'[r].lastError
           counter == x[r].failureCounts[i + 1] + 1
           trigger == Len(Targets) > 1
                        /\ (kind \in {"429", "403", "transport"} \/ counter >= 3)
       IN /\ x'[r].failed = x[r].failed + 1 => ((x'[r].activeTargetIndex # i) <=> trigger)
          /\ x'[r].failed = x[r].failed => x'[r].activeTargetIndex = i
          /\ Len(Targets) = 1 => x'[r].activeTargetIndex = i]_vars

\* three HTTP 500 answers in a row moved the phase from the first target to
\* the second
C12_Witness ==
  \E r \in Runs : pc[r] = "ul" /\ script = "500" /\ x[r].failed = 3 /\ x[r].count = 0
                  /\ x[r].activeTargetIndex = 1 /\ x[r].failureCounts[1] = 3

\* C13: a rotation moves the active target from i to (i + 1) mod n, zeroes the
\* new target's failure counter and notifies the observer once, for the new
\* target, with reason 'fallback'; the phase begins with one notification, of
\* reason 'initial', before any transfer, and no other step notifies.
C13_RotationEffect ==
  [][\A r \in Runs :
       /\ (pc[r] = "ul" /\ pc'[r] = "ul") =>
            LET i == x[r].activeTargetIndex
                j == x'[r].activeTargetIndex
            IN IF j # i
               THEN /\ j = (i + 1) % Len(Targets)
                    /\ x'[r].failureCounts[j + 1] = 0
                    /\ x'[r].notified = x[r].notified + 1
                    /\ x'[r].lastNotifiedTarget = j
                    /\ "Switched upload endpoint" \in progressDetails'
               ELSE x'[r].notified = x[r].notified
       /\ (pc[r] # "ul" /\ pc'[r] = "ul") =>
            /\ x'[r].notified = 1 /\ x'[r].lastNotifiedTarget = 0
            /\ x'[r].activeTargetIndex = 0
            /\ x'[r].count = 0 /\ x'[r].failed = 0 /\ x'[r].bytes = 0
            /\ "Upload endpoint" \in progressDetails'
            /\ "Switched upload endpoint" \notin progressDetails']_vars

\* three rate-limited answers took the phase round its three targets, back to
\* the first, whose counter is zero again
C13_Witness ==
  \E r \in Runs : pc[r] = "ul" /\ Len(Targets) = 3 /\ script = "429" /\ x[r].failed = 3
                  /\ x[r].activeTargetIndex = 0 /\ x[r].notified = 4
                  /\ x[r].failureCounts = << 0, 1, 1 >>

C15_UploadTargetList ==
  LET all == ENV_UPLOAD_ENDPOINTS(envEndpoints) \o DEFAULT_UPLOAD_TARGETS
      first(u) == CHOOSE k \in 1..Len(all) : all[k].url = u /\ \A m \in 1..(k - 1) : all[m].url # u
      custom(t) == \E k \in 1..Len(envEndpoints) : envEndpoints[k] = t.url
  IN /\ \A a, b \in 1..Len(Targets) : a # b => Targets[a].url # Targets[b].url
     /\ {Targets[a].url : a \in 1..Len(Targets)} = {all[k].url : k \in 1..Len(all)}
     /\ \A a \in 1..Len(Targets) : Targets[a] = all[first(Targets[a].url)]
     /\ \A a, b \in 1..Len(Targets) : a < b => first(Targets[a].url) < first(Targets[b].url)
     /\ \A a, b \in 1..Len(Targets) : (custom(Targets[a]) /\ ~custom(Targets[b])) => a < b
     /\ envEndpoints # << >> =>
          /\ Targets[1].url = envEndpoints[1]
          /\ \A r \in Runs : (pc[r] = "ul" /\ x[r].count = 0 /\ x[r].failed = 0) =>
               (x[r].activeTargetIndex = 0 /\ x[r].fly[1] = x[r].inFlight)

\* a built-in default configured as the second custom endpoint: four targets,
\* and the first requests of the phase are on their way to the first of them
C15_Witness ==
  \E r \in Runs : pc[r] = "ul" /\ Len(envEndpoints) = 2 /\ Len(Targets) = 4
                  /\ Targets[2].name = "Custom endpoint 2"
                  /\ Targets[3].name = "Cloudflare Speed Test"
                  /\ x[r].count = 0 /\ x[r].failed = 0 /\ x[r].fly[1] = MAX_PAR_UL

\* C16: a tier is Fail when one of the dimensions it sets a threshold for is
\* limiting, also when another one is missing; otherwise Unknown when one is
\* missing; otherwise Pass; the value of a dimension it sets no threshold for
\* does not change its status.
C16_TierStatus ==
  rateRet # << >> =>
    \A g \in 1..Len(CAPABILITY_GROUPS) : \A i \in 1..Len(CAPABILITY_GROUPS[g].qualities) :
      LET q == CAPABILITY_GROUPS[g].qualities[i]
          th == [dl |-> q.thresholds.minDl, ul |-> q.thresholds.minUl,
                 rtt |-> q.thresholds.maxRtt, loss |-> q.thresholds.maxLoss]
          val == [dl |-> rateArg.dlMbps, ul |-> rateArg.ulMbps,
                  rtt |-> rateArg.rtt, loss |-> rateArg.loss]
          required == {d \in DOMAIN th : th[d] # Null}
          absent(d) == val[d] \in {Null, NaN}
          violates(d) == ~absent(d) /\ (IF d \in {"dl", "ul"} THEN val[d] < th[d]
                                                              ELSE val[d] > th[d])
          expected == IF \E d \in required : violates(d) THEN Fail
                      ELSE IF \E d \in required : absent(d) THEN Unknown ELSE Pass
      IN /\ rateRet[g].options[i].status = expected
         /\ th.ul = Null => \A v \in UlValues :
              rateQuality(q, [rateArg EXCEPT !.ulMbps = v]).status = expected
         /\ th.rtt = Null => \A v \in RttValues :
              rateQuality(q, [rateArg EXCEPT !.rtt = v]).status = expected

\* the download speed limits GeForce NOW 1080p60 while its loss is missing,
\* and the upload speed, which Streaming 4K does not look at, is missing
C16_Witness ==
  /\ rateRet # << >> /\ rateArg.dlMbps = 10000 /\ rateArg.loss = Null /\ rateArg.ulMbps = Null
  /\ rateRet[3].options[1].status = Fail /\ Len(rateRet[3].options[1].missing) > 0
  /\ rateRet[2].options[2].status = Unknown

\* C17: a profile is Pass when one of its tiers is Pass, otherwise Unknown when
\* one of its tiers is Unknown, otherwise Fail.
C17_ProfileStatus ==
  rateRet # << >> =>
    \A g \in 1..Len(CAPABILITY_GROUPS) :
      LET sts == {rateRet[g].options[i].status : i \in 1..Len(rateRet[g].options)}
      IN rateRet[g].ok = IF Pass \in sts THEN Pass
                         ELSE IF Unknown \in sts THEN Unknown ELSE Fail

\* Streaming is Unknown with its 4K tier failing and its 1080p tier unknown
C17_Witness ==
  /\ rateRet # << >>
  /\ rateRet[2].ok = Unknown /\ rateRet[2].options[1].status = Fail
  /\ rateRet[2].options[2].status = Unknown

\* C18: while a phase's error is recorded its measurement is absent, the
\* rating engine is handed it as absent, and every tier that sets a threshold
\* on it lists it as missing and not as limiting.
C18_FailedPhaseNotRatedAsZero ==
  LET Has(seq, name) == \E k \in 1..Len(seq) : seq[k] = name
      dimsOf == [dl |-> {<< "minDl", "download speed" >>},
                 ul |-> {<< "minUl", "upload speed" >>},
                 rtt |-> {<< "maxRtt", "latency" >>, << "maxLoss", "packet loss" >>}]
      absentOf == [dl |-> dlBps = Null, ul |-> ulBps = Null,
                   rtt |-> latencyMs = Null /\ lossPct = Null]
      rated == caps
  IN \A ph \in Phases : stepErrors[ph] # NoError =>
       /\ absentOf[ph]
       /\ rated # << >>
       /\ \A g \in 1..Len(CAPABILITY_GROUPS) : \A i \in 1..Len(CAPABILITY_GROUPS[g].qualities) :
            LET option == rated[g].options[i]
            IN \A d \in dimsOf[ph] :
                 CAPABILITY_GROUPS[g].qualities[i].thresholds[d[1]] # Null =>
                   /\ Has(option.missing, d[2])
                   /\ ~Has(option.limiting, d[2])
                   /\ option.status # Pass

\* the download raised, the upload was measured, and the first Teams tier
\* lists the download speed as missing
C18_Witness ==
  /\ stepErrors.dl # NoError /\ dlBps = Null /\ ulBps # Null /\ ulBps > 0
  /\ caps # << >> /\ caps[1].options[1].missing = << "download speed", "latency", "packet loss" >>

\* C19: with a download speed of 10 Mbps and nothing else measured, every
\* profile that sets a threshold other than the download speed is Unknown.
C19_MissingPropagation ==
  (rateRet # << >> /\ rateArg = [dlMbps |-> 10000, ulMbps |-> Null, rtt |-> Null, loss |-> Null]) =>
    \A g \in 1..Len(CAPABILITY_GROUPS) :
      LET ths == {CAPABILITY_GROUPS[g].qualities[i].thresholds :
                    i \in 1..Len(CAPABILITY_GROUPS[g].qualities)}
          downloadOnly == \A th \in ths : th.minUl = Null /\ th.maxRtt = Null /\ th.maxLoss = Null
      IN IF downloadOnly THEN rateRet[g].ok \in {Pass, Fail} ELSE rateRet[g].ok = Unknown

\* C19 as amended: with only the download speed measured, a profile that sets
\* a threshold other than the download speed is Unknown when the speed meets
\* the download threshold of one of its tiers and Fail when it meets none.
C19_MissingPropagationAmended ==
  (rateRet # << >> /\ rateArg.dlMbps \notin {Null, NaN} /\ rateArg.ulMbps = Null
     /\ rateArg.rtt = Null /\ rateArg.loss = Null) =>
    \A g \in 1..Len(CAPABILITY_GROUPS) :
      LET ths == {CAPABILITY_GROUPS[g].qualities[i].thresholds :
                    i \in 1..Len(CAPABILITY_GROUPS[g].qualities)}
          downloadOnly == \A th \in ths : th.minUl = Null /\ th.maxRtt = Null /\ th.maxLoss = Null
          meets == \E th \in ths : th.minDl = Null \/ rateArg.dlMbps >= th.minDl
      IN ~downloadOnly => rateRet[g].ok = IF meets THEN Unknown ELSE Fail

\* 10 Mbps and nothing else: Teams and Streaming are Unknown, GeForce NOW fails
C19_Witness ==
  /\ rateRet # << >>
  /\ rateArg = [dlMbps |-> 10000, ulMbps |-> Null, rtt |-> Null, loss |-> Null]
  /\ rateRet[1].ok = Unknown /\ rateRet[2].ok = Unknown /\ rateRet[3].ok = Fail

\* C20: with the other measurements fixed, a higher download speed keeps a
\* profile that is Pass at Pass and never turns an Unknown profile into Fail.
C20_MonotoneInDownload ==
  (rateRet # << >> /\ rateArg.dlMbps \notin {Null, NaN}) =>
    \A d2 \in DlValues \ {Null, NaN} : d2 >= rateArg.dlMbps =>
      \A g \in 1..Len(CAPABILITY_GROUPS) :
        LET v2 == rateGroup(CAPABILITY_GROUPS[g], [rateArg EXCEPT !.dlMbps = d2]).ok
        IN /\ rateRet[g].ok = Pass => v2 = Pass
           /\ rateRet[g].ok = Unknown => v2 # Fail

\* Teams fails at 0.299 Mbps for the download speed alone and passes at 0.3 Mbps
C20_Witness ==
  /\ rateRet # << >> /\ rateArg.dlMbps = 299 /\ rateArg.loss = 0
  /\ rateRet[1].ok = Fail
  /\ rateGroup(CAPABILITY_GROUPS[1], [rateArg EXCEPT !.dlMbps = 300]).ok = Pass

\* C21: a measurement equal to a tier's threshold is not reported as limiting:
\* download and upload at the minimum, round-trip time and loss at the maximum.
C21_BoundaryInclusion ==
  rateRet # << >> =>
    \A g \in 1..Len(CAPABILITY_GROUPS) : \A i \in 1..Len(CAPABILITY_GROUPS[g].qualities) :
      LET th == CAPABILITY_GROUPS[g].qualities[i].thresholds
          limiting == rateRet[g].options[i].limiting
          Has(name) == \E k \in 1..Len(limiting) : limiting[k] = name
      IN /\ rateArg.dlMbps = th.minDl => ~Has("download speed")
         /\ rateArg.ulMbps = th.minUl => ~Has("upload speed")
         /\ rateArg.rtt = th.maxRtt => ~Has("latency")
         /\ rateArg.loss = th.maxLoss => ~Has("packet loss")
         /\ ((th.minDl = Null \/ rateArg.dlMbps = th.minDl)
             /\ (th.minUl = Null \/ rateArg.ulMbps = th.minUl)
             /\ (th.maxRtt = Null \/ rateArg.rtt = th.maxRtt)
             /\ (th.maxLoss = Null \/ rateArg.loss = th.maxLoss))
              => rateRet[g].options[i].status = Pass

\* every measurement sits on a threshold of the first Teams tier, which passes
C21_Witness ==
  /\ rateRet # << >>
  /\ rateArg = [dlMbps |-> 1500, ulMbps |-> 1000, rtt |-> 150, loss |-> 30]
  /\ rateRet[1].options[1].status = Pass /\ rateRet[1].options[1].limiting = << >>

\* C22: download 30 Mbps, upload 5 Mbps, round-trip time 20 ms and loss 0.5 %
\* rate every profile and every tier of every profile as Pass.
C22_AllPassScenario ==
  (rateRet # << >> /\ rateArg = [dlMbps |-> 30000, ulMbps |-> 5000, rtt |-> 20, loss |-> 5]) =>
    \A g \in 1..Len(CAPABILITY_GROUPS) :
      /\ rateRet[g].ok = Pass
      /\ rateRet[g].top = CAPABILITY_GROUPS[g].qualities[1].key
      /\ \A i \in 1..Len(rateRet[g].options) :
           /\ rateRet[g].options[i].status = Pass
           /\ rateRet[g].options[i].missing = << >>
           /\ rateRet[g].options[i].limiting = << >>

\* the scenario has been rated
C22_Witness ==
  /\ rateArg = [dlMbps |-> 30000, ulMbps |-> 5000, rtt |-> 20, loss |-> 5]
  /\ Len(rateRet) = 3 /\ rateRet[3].ok = Pass /\ rateRet[3].top = "geforce-1080p60"

\* C23: the loss the latency phase returns is drops / (drops + samples) when
\* a probe has settled, and 0 when it ends with no drop and no sample, as when
\* the probe in flight is cancelled.
C23_LossDefined ==
  \A r \in Runs : (pc[r] = "rtt" /\ l[r].st = "probe") =>
    LET n == Len(l[r].durations)
        d == l[r].drops
        o == latencySettle(probeAborted(State, r), r).ret[r]
    IN o.kind = "ok" =>
         o.loss = IF d + n > 0 THEN (d * 1000) \div (d + n) ELSE 0

\* C24: the latency phase raises exactly when it ends with no sample and a
\* probe failed for a reason other than cancellation, also when it ends
\* because the probe in flight is cancelled.
C24_LatencyFailurePolicy ==
  \A r \in Runs : (pc[r] = "rtt" /\ l[r].st = "probe") =>
    LET failing == Len(l[r].durations) = 0 /\ l[r].drops > 0
        o == latencySettle(probeAborted(State, r), r).ret[r]
    IN (o.kind = "err") <=> failing

\* C24 as amended: the latency phase raises exactly when it ends with no
\* sample, a probe failed for a reason other than cancellation, and the phase
\* does not end by the cancellation of a probe in flight, which makes it
\* return a result.
C24_LatencyFailurePolicyAmended ==
  \A r \in Runs : pc[r] = "rtt" =>
    LET failing == Len(l[r].durations) = 0 /\ l[r].drops > 0
    IN /\ (LatencyOutcome(l[r]).kind = "err") <=> failing
       /\ l[r].st = "probe" =>
            latencySettle(probeAborted(State, r), r).ret[r].kind = "ok"

\* a probe is in flight after nothing but drops
C24_Witness ==
  \E r \in Runs : pc[r] = "rtt" /\ l[r].st = "probe" /\ l[r].drops > 0
                  /\ Len(l[r].durations) = 0 /\ l[r].lastError # NoError

\* C25: the latency phase has one probe in flight or sleeps after one, has
\* issued at most 12 probes, of which all but the one in flight are counted as
\* a sample or a drop, and a run that was not stopped reaches its end with
\* samples + drops = 12.
C25_ProbeCount ==
  [][\A r \in Runs :
       /\ pc'[r] = "rtt" =>
            /\ l'[r].st \in {"probe", "sleep"}
            /\ l'[r].index + 1 <= RTT_PINGS
            /\ Len(l'[r].durations) + l'[r].drops
                 = l'[r].index + (IF l'[r].st = "sleep" THEN 1 ELSE 0)
       /\ (pc[r] = "rtt" /\ pc'[r] = "done") =>
            /\ r \notin cancelled => Len(l[r].durations) + l[r].drops = RTT_PINGS
            /\ stepErrors'.rtt = NoError => samples'.rtt = Len(l[r].durations)]_vars

\* the twelfth probe has settled: eleven samples and one drop
C25_Witness ==
  \E r \in Runs : pc[r] = "rtt" /\ l[r].st = "sleep" /\ l[r].index = RTT_PINGS - 1
                  /\ l[r].drops = 1 /\ Len(l[r].durations) = RTT_PINGS - 1

\* C26: the step in which a statement of startTests outside the inner try
\* blocks throws sets the status to 'Test failed' (step 0), clears both running
\* flags, aborts every registered handle and empties the registry, logs the
\* fatal entry and raises one alert; the run ends in that step, no run enters
\* a phase in it, and a run that has ended stays ended. No other step sets
\* that status, logs that entry or raises an alert.
C26_FatalPath ==
  [][LET fatal == alerts' # alerts
     IN /\ (status'.label = "Test failed" /\ status # status') => fatal
        /\ ("Fatal error" \in progressDetails' /\ "Fatal error" \notin progressDetails) => fatal
        /\ fatal =>
             /\ alerts' = alerts + 1
             /\ "Fatal error" \in progressDetails'
             /\ status' = [label |-> "Test failed", step |-> 0]
             /\ ~runningRef' /\ ~isRunning'
             /\ abortersRef' = {}
             /\ \A q \in Runs : Registered(abortersRef, q) => (sig'[q] \/ pc'[q] = "end")
             /\ \E r \in Runs : pc[r] # "end" /\ pc'[r] = "end"
             /\ \A q \in Runs : pc'[q] \in Phases => pc'[q] = pc[q]
        /\ \A r \in Runs : pc[r] = "end" => pc'[r] = "end"]_vars

\* the aggregate of a stopped run that woke up threw while the next run was
\* downloading: the download of that run was aborted
C26_Witness ==
  /\ fault = "final" /\ alerts = 1 /\ status.label = "Test failed" /\ ~runningRef
  /\ abortersRef = {}
  /\ "Download measurement aborted" \in progressDetails
  /\ \A r \in Runs : pc[r] = "end"

C28_CancellationSettles ==
  [][\A r \in Runs :
       (pc[r] \in {"dl", "ul"} /\ runningRef /\ ~runningRef' /\ status'.label = "Test stopped") =>
         /\ x[r].t < WatchdogMs(pc[r])
         /\ pc'[r] = "end" /\ x'[r].inFlight = 0 /\ x'[r].asleep = 0
         /\ results' = results
         /\ pc[r] = "dl" => (dlBps' = Null /\ samples'.dl = 0)
         /\ pc[r] = "ul" => (ulBps' = Null /\ samples'.ul = 0)]_vars

\* a download that had received a body was stopped: nothing was delivered
C28_Witness ==
  \E r \in Runs : pc[r] = "end" /\ status.label = "Test stopped" /\ dlBps = Null
                  /\ samples.dl = 0 /\ stepErrors.dl = NoError
                  /\ "Download measurement aborted" \in progressDetails

\* C29: a successful upload zeroes the failure counter of the active target,
\* and the failures counted against a target and the successes that zero its
\* counter are outcomes of requests sent to that target.
C29_ConsecutiveFailureCounting ==
  [][\A r \in Runs : (pc[r] = "ul" /\ pc'[r] = "ul") =>
       LET i == x[r].activeTargetIndex
           settled == x'[r].failed = x[r].failed + 1 \/ x'[r].count = x[r].count + 1
       IN /\ x'[r].count = x[r].count + 1 => x'[r].failureCounts[i + 1] = 0
          /\ settled => \A k \in DOMAIN x[r].fly : k # i + 1 => x'[r].fly[k] >= x[r].fly[k]]_vars

\* C30: a probe interrupted by cancellation adds no sample and no drop, makes
\* no progress callback and ends the loop without a sleep; a probe that fails
\* otherwise adds one drop and a probe that succeeds adds one sample.
C30_InterruptedProbe ==
  [][\A r \in Runs : (pc[r] = "rtt" /\ l[r].st = "probe") =>
       LET n == Len(l[r].durations)
           d == l[r].drops
           a == probeAborted(State, r)
           marks(log) == log \cap {"Latency sample", "Latency request failed"}
       IN /\ a.l[r].durations = l[r].durations /\ a.l[r].drops = d
          /\ a.l[r].st = "exit" /\ a.progressDetails = progressDetails
          /\ (runningRef /\ ~runningRef' /\ status'.label = "Test stopped") =>
               /\ pc'[r] = "end"
               /\ samples' = samples /\ lossPct' = lossPct /\ latencyMs' = latencyMs
               /\ marks(progressDetails') = marks(progressDetails)
          /\ (pc'[r] = "rtt" /\ l'[r] # l[r]) =>
               /\ l'[r].st = "sleep"
               /\ \/ /\ Len(l'[r].durations) = n + 1 /\ l'[r].drops = d
                     /\ "Latency sample" \in progressDetails'
                  \/ /\ Len(l'[r].durations) = n /\ l'[r].drops = d + 1
                     /\ "Latency request failed" \in progressDetails']_vars

\* the run was stopped during its latency phase after a sample and a drop
C30_Witness ==
  \E r \in Runs : pc[r] = "end" /\ status.label = "Test stopped" /\ latencyMs = Null
                  /\ ulBps # Null
                  /\ {"Latency sample", "Latency request failed", "Latency measurement aborted"}
                       \subseteq progressDetails

\* C33: a passing profile names its first passing tier, an unknown profile
\* reports the missing measurements of its first unknown tier, a failing
\* profile the limiting factors of its last failing tier; the reported list is
\* non-empty and the other list is empty.
C33_ProfileExplanation ==
  rateRet # << >> =>
    \A g \in DOMAIN rateRet :
      LET grp == rateRet[g]
          opts == grp.options
          n == Len(opts)
      IN /\ grp.ok \in {Pass, Unknown, Fail}
         /\ grp.ok = Pass =>
              /\ \E i \in 1..n : /\ opts[i].status = Pass /\ grp.top = opts[i].key
                                 /\ \A j \in 1..(i - 1) : opts[j].status # Pass
              /\ grp.missing = << >> /\ grp.limiting = << >>
         /\ grp.ok = Unknown =>
              /\ \E i \in 1..n : /\ opts[i].status = Unknown /\ grp.missing = opts[i].missing
                                 /\ \A j \in 1..(i - 1) : opts[j].status # Unknown
              /\ Len(grp.missing) > 0 /\ grp.limiting = << >>
         /\ grp.ok = Fail =>
              /\ \E i \in 1..n : /\ opts[i].status = Fail /\ grp.limiting = opts[i].limiting
                                 /\ \A j \in (i + 1)..n : opts[j].status # Fail
              /\ Len(grp.limiting) > 0 /\ grp.missing = << >>

\* Teams fails: the video tier on download and upload, the audio tier, whose
\* factors are reported, on upload only
C33_Witness ==
  /\ rateRet # << >>
  /\ rateRet[1].ok = Fail
  /\ rateRet[1].options[1].limiting = << "download speed", "upload speed" >>
  /\ rateRet[1].limiting = << "upload speed" >>

\* C40: in every profile a tier that passes is followed by passing tiers only,
\* so a failing tier of a passing profile precedes the tier the profile names.
C40_CatalogNesting ==
  rateRet # << >> =>
    \A g \in DOMAIN rateRet :
      LET opts == rateRet[g].options
          n == Len(opts)
      IN /\ \A i \in 1..n : \A j \in (i + 1)..n :
              opts[i].status = Pass => opts[j].status = Pass
         /\ rateRet[g].ok = Pass =>
              \A i \in 1..n : \A j \in 1..n :
                (opts[i].status = Fail /\ opts[j].key = rateRet[g].top) => i < j

\* 4K streaming fails, 1080p passes and is the quality the profile names
C40_Witness ==
  /\ rateRet # << >>
  /\ rateRet[2].ok = Pass
  /\ rateRet[2].options[1].status = Fail
  /\ rateRet[2].options[2].status = Pass
  /\ rateRet[2].top = "streaming-1080p"

\* C37: a transfer phase without a completed request and without a recorded
\* error settles with count 0 and 0 bits per second, a run in progress stores
\* that as the measurement 0, and every tier that sets a threshold on a
\* throughput measured as 0 lists it as limiting and not as missing.
C37_EmptyPhaseRatedAsZero ==
  LET Has(seq, name) == \E k \in 1..Len(seq) : seq[k] = name
      zeroDims == (IF dlBps = 0 THEN {<< "minDl", "download speed" >>} ELSE {})
                    \cup (IF ulBps = 0 THEN {<< "minUl", "upload speed" >>} ELSE {})
  IN /\ \A r \in Runs :
          (pc[r] \in {"dl", "ul"} /\ x[r].count = 0 /\ x[r].lastError = NoError) =>
            LET S1 == settleTransfer(State, r)
                S2 == IF pc[r] = "dl" THEN afterDownload(S1, r) ELSE afterUpload(S1, r)
            IN /\ S1.ret[r].kind = "ok" /\ S1.ret[r].count = 0 /\ S1.ret[r].bps = 0
               /\ runningRef =>
                    IF pc[r] = "dl"
                    THEN S2.dlBps = 0 /\ S2.samples.dl = 0 /\ S2.stepErrors.dl = NoError
                    ELSE S2.ulBps = 0 /\ S2.samples.ul = 0 /\ S2.stepErrors.ul = NoError
     /\ zeroDims # {} =>
          LET rated == caps
          IN /\ rated # << >>
             /\ \A g \in 1..Len(CAPABILITY_GROUPS) :
                  \A i \in 1..Len(CAPABILITY_GROUPS[g].qualities) :
                    LET option == rated[g].options[i]
                    IN \A d \in zeroDims :
                         CAPABILITY_GROUPS[g].qualities[i].thresholds[d[1]] # Null =>
                           /\ Has(option.limiting, d[2])
                           /\ ~Has(option.missing, d[2])
                           /\ option.status = Fail

\* the watchdog ended a download whose requests were all still in flight: the
\* download speed is the measurement 0 and the 4K tier lists it as limiting
C37_Witness ==
  /\ dlBps = 0 /\ samples.dl = 0 /\ stepErrors.dl = NoError
  /\ \E r \in Runs : pc[r] = "ul"
  /\ caps # << >> /\ caps[2].options[1].limiting = << "download speed" >>

\* C38: while the running flag is set no step lets an invocation of startTests
\* past its first line: no invocation begins and the results and the log are
\* not reset; while the flag is clear no step is a stop: the status does not
\* become 'Test stopped', the log gets no stop entry, no invocation is marked
\* stopped and no controller is aborted by the registry.
C38_IgnoredRequests ==
  [][/\ runningRef =>
          /\ \A r \in Runs : pc[r] = "none" => pc'[r] = "none"
          /\ startsLeft' = startsLeft
          /\ progressDetails \subseteq progressDetails' 
          /\ \A i \in 1..5 : results[i] # Null => results'[i] # Null
          /\ \A r \in Runs : (pc[r] \in Phases /\ pc'[r] = pc[r] /\ ~sig[r]) => ~sig'[r] \/ ~runningRef'
     /\ ~runningRef =>
          /\ status'.label = "Test stopped" => status' = status
          /\ "Test stopped by user" \in progressDetails' => "Test stopped by user" \in progressDetails
          /\ cancelled' \subseteq cancelled]_vars

\* the upload of a run is in progress, its download result is stored, and the
\* user may press start again
C38_Witness ==
  /\ runningRef /\ startsLeft > 0
  /\ \E r \in Runs : pc[r] = "ul" /\ x[r].inFlight > 0
  /\ dlBps # Null /\ dlBps > 0

\* C39: no pump of a transfer phase is in the 10 ms wait of the cap check:
\* each of the MAX_PAR pumps holds a request or has returned, so a pump at the
\* head of its loop finds at most MAX_PAR - 1 requests in flight.
C39_CapWaitNeverTaken ==
  \A r \in Runs : pc[r] \in {"dl", "ul"} =>
    /\ x[r].asleep = 0
    /\ x[r].inFlight + x[r].done = MaxPar(pc[r])
    /\ \A running \in BOOLEAN :
         x[r].inFlight > 0 =>
           LoopHead(Finally(x[r], CHOOSE t \in 0..(Len(x[r].fly) - 1) : x[r].fly[t + 1] > 0),
                    MaxPar(pc[r]), DurationMs(pc[r]), running).asleep = 0

\* a download pump completed a request, passed the cap check and holds the
\* sixth request in flight again
C39_Witness ==
  \E r \in Runs : pc[r] = "dl" /\ x[r].count > 0 /\ x[r].inFlight = MAX_PAR_DL
                  /\ x[r].asleep = 0

\* C32: in a transfer phase a step counts at most one request, as completed
\* or as failed and never as both; a failed request and the abort of the
\* requests in flight leave count and bytes alone, a completed request adds
\* one to count and its body (download) or 2 MiB (upload) to bytes; the phase
\* settles with that count, which is what a run in progress stores; in the
\* upload phase bytes = count x 2 MiB.
C32_Counting ==
  [][\A r \in Runs : pc[r] \in {"dl", "ul"} =>
       LET a == x[r]
           b == x'[r]
           o == settleTransfer(State, r).ret[r]
       IN /\ AbortPumps(a).count = a.count /\ AbortPumps(a).bytes = a.bytes
          /\ o.kind = "ok" => o.count = a.count
          /\ pc[r] = "ul" => a.bytes = a.count * UL_PAYLOAD_BYTES
          /\ pc'[r] = pc[r] =>
               /\ b.count \in {a.count, a.count + 1}
               /\ b.failed \in {a.failed, a.failed + 1}
               /\ b.count + b.failed <= a.count + a.failed + 1
               /\ b.count = a.count => b.bytes = a.bytes
               /\ b.count = a.count + 1 =>
                    IF pc[r] = "dl" THEN b.bytes - a.bytes \in BodyLengths
                    ELSE b.bytes - a.bytes = UL_PAYLOAD_BYTES
          /\ (pc[r] = "dl" /\ pc'[r] = "ul" /\ stepErrors'.dl = NoError) =>
               samples'.dl \in {a.count, a.count + 1}
          /\ (pc[r] = "ul" /\ pc'[r] = "rtt" /\ stepErrors'.ul = NoError) =>
               samples'.ul \in {a.count, a.count + 1}]_vars

\* one upload request completed and one failed: one payload is counted
C32_Witness ==
  \E r \in Runs : pc[r] = "ul" /\ x[r].count = 1 /\ x[r].failed = 1
                  /\ x[r].bytes = UL_PAYLOAD_BYTES /\ samples.dl = 1

\* C31: in a transfer phase a progress callback is made by a completed
\* request only, at least 500 ms after the previous callback of the phase, or
\* after the phase start for the first one; the elapsed time, the byte total
\* and the count, which a callback carries as they are then, never decrease.
C31_ProgressThrottle ==
  [][\A r \in Runs : (pc[r] \in {"dl", "ul"} /\ pc'[r] = pc[r]) =>
       LET a == x[r]
           b == x'[r]
       IN /\ b.t >= a.t /\ b.bytes >= a.bytes /\ b.count >= a.count
          /\ b.emits \in {a.emits, a.emits + 1}
          /\ b.lastProgressEmit # a.lastProgressEmit <=> b.emits = a.emits + 1
          /\ b.emits = a.emits + 1 =>
               /\ b.lastProgressEmit = b.t
               /\ b.t - a.lastProgressEmit >= PROGRESS_INTERVAL_MS
               /\ a.emits = 0 => b.t >= PROGRESS_INTERVAL_MS
               /\ b.count = a.count + 1
               /\ (IF pc[r] = "dl" THEN "Download progress" ELSE "Upload progress")
                    \in progressDetails']_vars

\* the second callback of a download, 750 ms after the first, made by the
\* third completed request
C31_Witness ==
  \E r \in Runs : pc[r] = "dl" /\ x[r].emits = 2 /\ x[r].count = 3
                  /\ x[r].lastProgressEmit = x[r].t /\ x[r].t = 1250

\* C34: while a later run is in progress, a run that was stopped does not
\* reach the end of startTests (where the terminal status is set and the
\* running flag cleared), writes no latency result, and a step in which only
\* it moves on leaves the running flag, the status and the results alone.
C34_OnlyLatestRunWrites ==
  [][\A r \in cancelled :
       (\E q \in Runs \ {r} : q > r /\ pc[q] \in Phases) =>
         /\ pc'[r] # "done"
         /\ (pc[r] = "rtt" /\ pc'[r] # "rtt" /\ \A q \in Runs \ {r} : pc[q] # "rtt") =>
              /\ latencyMs' = latencyMs /\ jitterMs' = jitterMs /\ lossPct' = lossPct
              /\ samples'.rtt = samples.rtt
         /\ (pc'[r] # pc[r] /\ \A q \in Runs \ {r} : pc'[q] = pc[q] /\ x'[q] = x[q]) =>
              /\ runningRef' = runningRef /\ status' = status /\ results' = results]_vars

\* C35: in the upload phase the active target advances only in a step in
\* which a request sent to the active target fails, so requests sent
\* concurrently to one target advance it once; and a request sent to another
\* target than the active one, when it completes or fails, leaves the failure
\* counter of the active target alone.
C35_FailureAttribution ==
  [][\A r \in Runs : (pc[r] = "ul" /\ pc'[r] = "ul") =>
       LET a == x[r]
           b == x'[r]
           i == a.activeTargetIndex
           stale == \E k \in DOMAIN a.fly : k # i + 1 /\ b.fly[k] < a.fly[k]
       IN /\ b.activeTargetIndex # i => b.fly[i + 1] = a.fly[i + 1] - 1
          /\ stale => (b.activeTargetIndex = i /\ b.failureCounts[i + 1] = a.failureCounts[i + 1])]_vars

\* C36: a run that has started a phase leads to a terminal status with both
\* running flags clear, unless it is stopped; the timers fire and every
\* latency probe settles, the download and upload requests may never settle.
C36_RunTerminates ==
  (\E r \in Runs : pc[r] \in Phases)
    ~> \/ /\ status.label \in {"Test complete", "Test finished with warnings", "Test failed"}
          /\ ~runningRef /\ ~isRunning
          /\ \A r \in Runs : pc[r] \notin Phases
       \/ status.label = "Test stopped"

\* no download and no upload request ever settled, the watchdogs ended both
\* phases and the run is complete
C36_Witness ==
  /\ \E r \in Runs : pc[r] = "done"
  /\ status.label = "Test complete" /\ ~runningRef
  /\ dlBps = 0 /\ ulBps = 0 /\ samples.rtt > 0


============================================================================
